---- MODULE Spec2Model ----
(***************************************************************************)
(* stock_history (tsetmc.py): the lookup-and-normalize pipeline as a state *)
(* machine.  One call of stock_history runs from "entry" to "done"; the    *)
(* symbol path re-enters "entry" once for the recursive call of line 126.  *)
(* Every network request is a step whose outcome (a transport exception,   *)
(* or a response with some status) is chosen by the environment.           *)
(***************************************************************************)
EXTENDS Integers, Sequences, FiniteSets, TLC

VARIABLES
    pc,          \* position in stock_history: "entry", "h_loop", "h_check", "s_loop", "s_parse", "done"
    depth,       \* 0 in the caller's call, 1 inside the recursive call of line 126
    symbol,      \* parameter symbol of the running call
    inscode,     \* parameter inscode of the running call
    days,        \* parameter days of the running call
    start_date,  \* local start_date (reassigned at lines 91/95)
    end_date,    \* local end_date (reassigned at lines 93/96)
    attempt,     \* iterations of the running retry loop that have ended in the except clause
    response,    \* local `response` of the history branch (line 61)
    resp,        \* local `resp` of the symbol branch (line 113)
    cands,       \* the candidates parsed from the search body (line 121)
    ins,         \* local `ins` (line 122)
    table,       \* df as indexed at line 89, before the slice
    result,      \* what the caller's call returned
    raised,      \* the exception that ended the call, if any
    caught,      \* the except clause of lines 135-140 that caught it
    msgs,        \* messages printed by the handlers of lines 135-140
    log,         \* history of requests and sleeps, in order
    caller       \* the arguments the caller passed (never changed)

vars == <<pc, depth, symbol, inscode, days, start_date, end_date, attempt,
          response, resp, cands, ins, table, result, raised, caught, msgs,
          log, caller>>

----------------------------------------------------------------------------
(* Bounds of the model *)

\* longest closingPriceDaily array the history endpoint returns
MaxRows == 3
\* longest candidate list the search endpoint returns
MaxCands == 2

----------------------------------------------------------------------------
(* Python values *)

None == [tag |-> "None"]

\* an int, written as its sign and its decimal digits
PyInt(neg, digits) == [tag |-> "int", neg |-> neg, digits |-> digits]
PyStr(chars) == [tag |-> "str", chars |-> chars]
PyBool(b) == [tag |-> "bool", val |-> b]
PyFloat(name) == [tag |-> "float", repr |-> name]

\* str(v), as the sequence of its characters
Str(v) ==
    CASE v.tag = "int"   -> (IF v.neg THEN <<"-">> ELSE <<>>) \o v.digits
      [] v.tag = "str"   -> v.chars
      [] v.tag = "bool"  -> IF v.val THEN <<"T", "r", "u", "e">>
                                     ELSE <<"F", "a", "l", "s", "e">>
      [] v.tag = "float" -> v.repr
      [] v.tag = "None"  -> <<"N", "o", "n", "e">>

\* isinstance(v, int): bool is a subclass of int
IsInstanceInt(v) == v.tag \in {"int", "bool"}

\* the two digit counts line 52 accepts
ShortLen == 16
LongLen == 17

\* the condition of line 52 (without the leading `not`)
ValidInscode(v) ==
    IsInstanceInt(v) /\ (Len(Str(v)) = ShortLen \/ Len(Str(v)) = LongLen)

----------------------------------------------------------------------------
(* What the caller and the two endpoints may supply *)

\* a decimal numeral of n digits: 1234567891234...
Digits(n) == [k \in 1..n |-> ((k - 1) % 9) + 1]

\* values passed as inscode: ints of 15 to 18 digits of either sign, and
\* values that are not ints
Inscodes ==
    {PyInt(neg, Digits(n)) : neg \in BOOLEAN, n \in 15..18}
        \cup {PyStr(Digits(17)), PyBool(TRUE), PyFloat(<<"3", ".", "5", "e", "+", "1", "6">>)}

Symbols == {PyStr(<<"f", "m", "l", "y">>), PyStr(<<"f", "w", "l", "a", "d">>)}

DaysValues == {0, 5}

\* "YYYY-MM-DD" as its ten characters
DateStr(y, m, d) ==
    PyStr(<<y \div 1000, (y \div 100) % 10, (y \div 10) % 10, y % 10, "-",
            m \div 10, m % 10, "-", d \div 10, d % 10>>)

StartDates == {DateStr(2021, 1, 1)}
EndDates == {DateStr(2021, 1, 2)}

\* the HTTP statuses the endpoints answer with
Statuses == {200, 204, 404}

\* dEven values of the upstream rows
DEvens == {20201231, 20210101, 20210102, 20210103}

\* closingPriceDaily arrays: at most MaxRows rows, ascending in dEven
RawTables ==
    {t \in UNION {[1..n -> DEvens] : n \in 0..MaxRows} :
        \A k \in 1..(Len(t) - 1) : t[k] < t[k + 1]}

\* candidates of the search endpoint: lVal18AFC and insCode
Candidates ==
    {[lVal18AFC |-> <<"f", "m", "l", "y">>, insCode |-> PyInt(FALSE, Digits(17))],
     [lVal18AFC |-> <<"k", "g", "l", "y">>, insCode |-> PyInt(FALSE, Digits(16))],
     [lVal18AFC |-> <<"f", "w", "l", "a", "d">>, insCode |-> PyStr(Digits(17))]}

CandLists == UNION {[1..n -> Candidates] : n \in 0..MaxCands}

----------------------------------------------------------------------------
(* Return values, exceptions, log entries *)

Pending == [kind |-> "pending"]
ReturnNone == [kind |-> "None"]
Sentinel == [kind |-> "str", text |-> "No valid parameters provided for fetching stock data."]
ReturnTable(rows) == [kind |-> "table", rows |-> rows]
\* the call ended in an exception instead of returning
Propagated == [kind |-> "propagated"]

NoError == [type |-> "none"]
Unbound == [bound |-> FALSE]
Response(s) == [bound |-> TRUE, status |-> s]
Frame(rows) == [bound |-> TRUE, rows |-> rows]

Req(ep, exc, s) == [ev |-> "req", ep |-> ep, exc |-> exc, status |-> s]
Sleep(ep) == [ev |-> "sleep", ep |-> ep]

\* Handler without the catch-all clause of line 139
HandlerNoCatchAll(type) ==
    CASE type \in {"ValueError", "JSONDecodeError"} -> "ValueError"
      [] type \in {"RequestException", "HTTPError", "ConnectionError"} -> "RequestException"
      [] OTHER -> "uncaught"

\* the first except clause of lines 135-139 that matches an exception type;
\* requests' JSONDecodeError is both a RequestException and a ValueError
Handler(type) ==
    CASE type \in {"ValueError", "JSONDecodeError"} -> "ValueError"
      [] type \in {"RequestException", "HTTPError", "ConnectionError"} -> "RequestException"
      [] type \in {"Exception", "UnboundLocalError", "KeyError"} -> "Exception"
      [] OTHER -> "uncaught"

\* an exception leaves the try block of line 46: the matching handler prints
\* one message and the call falls off the end, returning None; the caller of
\* the recursive call (line 126) returns that same value.  An exception no
\* clause matches leaves the call.
Raise(exc) ==
    /\ raised' = exc
    /\ caught' = Handler(exc.type)
    /\ msgs' = IF Handler(exc.type) = "uncaught" THEN msgs ELSE msgs + 1
    /\ result' = IF Handler(exc.type) = "uncaught" THEN Propagated ELSE ReturnNone
    /\ pc' = "done"

Init ==
    /\ pc = "entry"
    /\ depth = 0
    /\ symbol \in Symbols \cup {None}
    /\ inscode \in Inscodes \cup {None}
    /\ days \in DaysValues
    /\ start_date \in StartDates \cup {None}
    /\ end_date \in EndDates \cup {None}
    /\ attempt = 0
    /\ response = Unbound
    /\ resp = Unbound
    /\ cands = Unbound
    /\ ins = None
    /\ table = Unbound
    /\ result = Pending
    /\ raised = NoError
    /\ caught = "none"
    /\ msgs = 0
    /\ log = <<>>
    /\ caller = [symbol |-> symbol, inscode |-> inscode, days |-> days,
                 start_date |-> start_date, end_date |-> end_date]

----------------------------------------------------------------------------
(* Dates and the table *)

\* pd.to_datetime(dEven, format='%Y%m%d'): year, month, day of the numeral
ToDatetime(n) == <<n \div 10000, (n \div 100) % 100, n % 100>>

\* a "YYYY-MM-DD" string read as year, month, day
ParseDate(chars) ==
    <<chars[1] * 1000 + chars[2] * 100 + chars[3] * 10 + chars[4],
      chars[6] * 10 + chars[7],
      chars[9] * 10 + chars[10]>>

Timestamp(ymd) == [tag |-> "Timestamp", ymd |-> ymd]
PyDate(ymd) == [tag |-> "date", ymd |-> ymd]

DateLT(a, b) ==
    \/ a[1] < b[1]
    \/ a[1] = b[1] /\ a[2] < b[2]
    \/ a[1] = b[1] /\ a[2] = b[2] /\ a[3] < b[3]

DateLE(a, b) == a = b \/ DateLT(a, b)

\* lines 73-89: one row per raw record, in the order received, keyed by the
\* parsed dEven (renamed date)
Normalize(raw) == [k \in 1..Len(raw) |-> [date |-> ToDatetime(raw[k])]]

IndexMin(df) ==
    df[CHOOSE k \in DOMAIN df : \A j \in DOMAIN df : DateLE(df[k].date, df[j].date)].date
IndexMax(df) ==
    df[CHOOSE k \in DOMAIN df : \A j \in DOMAIN df : DateLE(df[j].date, df[k].date)].date

\* ResolveWindow with no auto-fill of end_date
ResolveWindowNoEndFill(sd, ed, df) ==
    IF sd = None THEN <<Timestamp(IndexMin(df)), ed>>
    ELSE IF ed = None THEN <<sd, ed>>
    ELSE <<PyDate(ParseDate(sd.chars)), PyDate(ParseDate(ed.chars))>>

\* lines 90-96: the values of start_date and end_date after the if/elif/else
ResolveWindow(sd, ed, df) ==
    IF sd = None THEN <<Timestamp(IndexMin(df)), ed>>
    ELSE IF ed = None THEN <<sd, Timestamp(IndexMax(df))>>
    ELSE <<PyDate(ParseDate(sd.chars)), PyDate(ParseDate(ed.chars))>>

\* a slice bound as the day it names: a Timestamp, a datetime.date, or a
\* date string
BoundDay(v) == IF v.tag = "str" THEN ParseDate(v.chars) ELSE v.ymd

\* Slice with the end bound excluded
SliceHalfOpen(df, a, b) ==
    LET lo == IF a = None THEN 0
              ELSE Cardinality({k \in DOMAIN df : DateLT(df[k].date, BoundDay(a))})
        hi == IF b = None THEN Len(df)
              ELSE Cardinality({k \in DOMAIN df : DateLT(df[k].date, BoundDay(b))})
    IN SubSeq(df, lo + 1, hi)

\* line 98, df[a : b] on an ascending DatetimeIndex: from the first row not
\* before a to the last row not after b; a None bound is open
Slice(df, a, b) ==
    LET lo == IF a = None THEN 0
              ELSE Cardinality({k \in DOMAIN df : DateLT(df[k].date, BoundDay(a))})
        hi == IF b = None THEN Len(df)
              ELSE Cardinality({k \in DOMAIN df : DateLE(df[k].date, BoundDay(b))})
    IN SubSeq(df, lo + 1, hi)

----------------------------------------------------------------------------
(* The retry loops *)

\* range(3) of lines 59 and 111
Retries == 3

\* status 200 of line 69
OK == 200

\* raise_for_status raises HTTPError (a RequestException) from status 400 up
ErrorFrom == 400
\* raise_for_status left out of the loop
RaisesForStatusNever(s) == FALSE

RaisesForStatus(s) == s >= ErrorFrom

\* what a request attempt may end in
Outcomes ==
    {[exc |-> TRUE, status |-> 0]} \cup {[exc |-> FALSE, status |-> s] : s \in Statuses}

\* whether the attempt ends in the except clause of line 64 / 116
Failed(o) == o.exc \/ RaisesForStatus(o.status)

\* a failed attempt with the sleep left out
AfterFailureNoSleep(ep) == <<>>

\* lines 65-66 / 117-118: what follows a failed attempt
AfterFailure(ep) == <<Sleep(ep)>>

\* the log of one attempt
AttemptLog(ep, o) ==
    <<Req(ep, o.exc, o.status)>> \o (IF Failed(o) THEN AfterFailure(ep) ELSE <<>>)

\* whether the for loop runs another iteration after this attempt
LoopsAgain(o) == Failed(o) /\ attempt + 1 < Retries

----------------------------------------------------------------------------
(* Actions *)

\* lines 51-53: inscode given and rejected
InvalidInscode ==
    /\ pc = "entry"
    /\ inscode # None
    /\ ~ValidInscode(inscode)
    /\ Raise([type |-> "ValueError", what |-> "Invalid inscode"])
    /\ UNCHANGED <<depth, symbol, inscode, days, start_date, end_date, attempt,
                   response, resp, cands, ins, table, log, caller>>

\* lines 51-59: inscode given and accepted; the retry loop starts
BeginHistory ==
    /\ pc = "entry"
    /\ inscode # None
    /\ ValidInscode(inscode)
    /\ pc' = "h_loop"
    /\ attempt' = 0
    /\ response' = Unbound
    /\ UNCHANGED <<depth, symbol, inscode, days, start_date, end_date, resp,
                   cands, ins, table, result, raised, caught, msgs, log, caller>>

\* lines 107-111: no inscode, a symbol; the search retry loop starts
BeginSearch ==
    /\ pc = "entry"
    /\ inscode = None
    /\ symbol # None
    /\ pc' = "s_loop"
    /\ attempt' = 0
    /\ resp' = Unbound
    /\ UNCHANGED <<depth, symbol, inscode, days, start_date, end_date, response,
                   cands, ins, table, result, raised, caught, msgs, log, caller>>

\* NoParameters raising instead of returning the message
NoParametersRaises ==
    /\ pc = "entry"
    /\ inscode = None
    /\ symbol = None
    /\ Raise([type |-> "ValueError", what |-> "No valid parameters"])
    /\ UNCHANGED <<depth, symbol, inscode, days, start_date, end_date, attempt,
                   response, resp, cands, ins, table, log, caller>>

\* lines 132-133: neither given
NoParameters ==
    /\ pc = "entry"
    /\ inscode = None
    /\ symbol = None
    /\ result' = Sentinel
    /\ pc' = "done"
    /\ UNCHANGED <<depth, symbol, inscode, days, start_date, end_date, attempt,
                   response, resp, cands, ins, table, raised, caught, msgs, log,
                   caller>>

\* lines 59-66: one iteration of the history loop
HistoryAttempt ==
    /\ pc = "h_loop"
    /\ \E o \in Outcomes :
        /\ response' = IF o.exc THEN response ELSE Response(o.status)
        /\ log' = log \o AttemptLog("history", o)
        /\ attempt' = IF Failed(o) THEN attempt + 1 ELSE attempt
        /\ pc' = IF LoopsAgain(o) THEN "h_loop" ELSE "h_check"
    /\ UNCHANGED <<depth, symbol, inscode, days, start_date, end_date, resp,
                   cands, ins, table, result, raised, caught, msgs, caller>>

\* line 69 when no attempt ever bound `response`
HistoryUnbound ==
    /\ pc = "h_check"
    /\ ~response.bound
    /\ Raise([type |-> "UnboundLocalError", what |-> "response"])
    /\ UNCHANGED <<depth, symbol, inscode, days, start_date, end_date, attempt,
                   response, resp, cands, ins, table, log, caller>>

\* lines 102-104: the last response received is not a 200
HistoryBadStatus ==
    /\ pc = "h_check"
    /\ response.bound
    /\ response.status # OK
    /\ Raise([type |-> "Exception", what |-> "Failed to get data",
              status |-> response.status])
    /\ UNCHANGED <<depth, symbol, inscode, days, start_date, end_date, attempt,
                   response, resp, cands, ins, table, log, caller>>

\* lines 69-76 on an empty closingPriceDaily: the frame has no columns and
\* df.drop raises KeyError
HistoryEmpty ==
    /\ pc = "h_check"
    /\ response.bound
    /\ response.status = OK
    /\ Raise([type |-> "KeyError", what |-> "columns not found in axis"])
    /\ UNCHANGED <<depth, symbol, inscode, days, start_date, end_date, attempt,
                   response, resp, cands, ins, table, log, caller>>

\* lines 69-100: a 200 with rows is normalized, windowed and returned
HistoryTable ==
    /\ pc = "h_check"
    /\ response.bound
    /\ response.status = OK
    /\ \E raw \in RawTables \ {<<>>} :
        LET df == Normalize(raw)
            w == ResolveWindow(start_date, end_date, df)
        IN /\ table' = Frame(df)
           /\ start_date' = w[1]
           /\ end_date' = w[2]
           /\ result' = ReturnTable(Slice(df, w[1], w[2]))
    /\ pc' = "done"
    /\ UNCHANGED <<depth, symbol, inscode, days, attempt, response, resp, cands,
                   ins, raised, caught, msgs, log, caller>>

\* FirstMatch taking the last matching candidate
FirstMatchLast(cl, sym) ==
    LET hits == {k \in DOMAIN cl : Len(cl[k].lVal18AFC) = Len(sym.chars)}
    IN IF hits = {} THEN None
       ELSE cl[CHOOSE k \in hits : \A j \in hits : k >= j].insCode

\* line 122: next(..., None) over the candidates whose lVal18AFC is as long
\* as the symbol, in list order
FirstMatch(cl, sym) ==
    LET hits == {k \in DOMAIN cl : Len(cl[k].lVal18AFC) = Len(sym.chars)}
    IN IF hits = {} THEN None
       ELSE cl[CHOOSE k \in hits : \A j \in hits : k <= j].insCode

\* line 126: the arguments of the recursive call
CallArgs(i, d, sd, ed) ==
    [symbol |-> None, inscode |-> i, days |-> d, start_date |-> sd, end_date |-> ed]

\* lines 111-118: one iteration of the search loop
SearchAttempt ==
    /\ pc = "s_loop"
    /\ \E o \in Outcomes :
        /\ resp' = IF o.exc THEN resp ELSE Response(o.status)
        /\ log' = log \o AttemptLog("search", o)
        /\ attempt' = IF Failed(o) THEN attempt + 1 ELSE attempt
        /\ pc' = IF LoopsAgain(o) THEN "s_loop" ELSE "s_parse"
    /\ UNCHANGED <<depth, symbol, inscode, days, start_date, end_date, response,
                   cands, ins, table, result, raised, caught, msgs, caller>>

\* line 121 when no attempt ever bound `resp`
SearchUnbound ==
    /\ pc = "s_parse"
    /\ ~resp.bound
    /\ Raise([type |-> "UnboundLocalError", what |-> "resp"])
    /\ UNCHANGED <<depth, symbol, inscode, days, start_date, end_date, attempt,
                   response, resp, cands, ins, table, log, caller>>

\* line 121 when the body of the last response received is not JSON
SearchBadBody ==
    /\ pc = "s_parse"
    /\ resp.bound
    /\ Raise([type |-> "JSONDecodeError", what |-> "resp.json()"])
    /\ UNCHANGED <<depth, symbol, inscode, days, start_date, end_date, attempt,
                   response, resp, cands, ins, table, log, caller>>

\* lines 121-129 when no candidate matches
SearchNotFound ==
    /\ pc = "s_parse"
    /\ resp.bound
    /\ \E cl \in CandLists :
        /\ FirstMatch(cl, symbol) = None
        /\ cands' = Frame(cl)
        /\ ins' = None
    /\ Raise([type |-> "Exception", what |-> "Inscode not found"])
    /\ UNCHANGED <<depth, symbol, inscode, days, start_date, end_date, attempt,
                   response, resp, table, log, caller>>

\* lines 121-126 when a candidate matches: the recursive call is entered
SearchRecurse ==
    /\ pc = "s_parse"
    /\ resp.bound
    /\ \E cl \in CandLists :
        LET found == FirstMatch(cl, symbol)
            args == CallArgs(found, days, start_date, end_date)
        IN /\ found # None
           /\ cands' = Frame(cl)
           /\ ins' = found
           /\ symbol' = args.symbol
           /\ inscode' = args.inscode
           /\ days' = args.days
           /\ start_date' = args.start_date
           /\ end_date' = args.end_date
    /\ depth' = depth + 1
    /\ pc' = "entry"
    /\ UNCHANGED <<attempt, response, resp, table, result, raised, caught, msgs,
                   log, caller>>

Next ==
    \/ InvalidInscode
    \/ BeginHistory
    \/ BeginSearch
    \/ NoParameters
    \/ HistoryAttempt
    \/ HistoryUnbound
    \/ HistoryBadStatus
    \/ HistoryEmpty
    \/ HistoryTable
    \/ SearchAttempt
    \/ SearchUnbound
    \/ SearchBadBody
    \/ SearchNotFound
    \/ SearchRecurse

Spec == Init /\ [][Next]_vars

----------------------------------------------------------------------------
(* Reading the log *)

EpLog(ep) == SelectSeq(log, LAMBDA e : e.ep = ep)
Reqs(ep) == Len(SelectSeq(log, LAMBDA e : e.ep = ep /\ e.ev = "req"))
Sleeps(ep) == Len(SelectSeq(log, LAMBDA e : e.ep = ep /\ e.ev = "sleep"))

\* a request that got a response raise_for_status accepts
Succeeded(e) == e.ev = "req" /\ ~e.exc /\ e.status < 400

\* the retry loop of an endpoint is not running
LoopLeft(ep) == IF ep = "history" THEN pc # "h_loop" ELSE pc # "s_loop"

\* the local that holds the loop's response
LoopResponse(ep) == IF ep = "history" THEN response ELSE resp

----------------------------------------------------------------------------
(* Properties *)

\* C1 (as claimed): once a call given an inscode is past validation, an int
\* of exactly 16 or 17 decimal digits has raised no ValueError and is in the
\* history fetch, and every other value has ended in ValueError with no
\* request sent.
C1_Claim ==
    (depth = 0 /\ caller.inscode # None /\ pc # "entry") =>
        IF caller.inscode.tag = "int" /\ Len(caller.inscode.digits) \in {16, 17}
        THEN /\ raised.type # "ValueError"
             /\ pc \in {"h_loop", "h_check", "done"}
             /\ (pc # "h_loop" => Reqs("history") >= 1)
        ELSE /\ pc = "done"
             /\ raised.type = "ValueError"
             /\ log = <<>>

\* C2 (as claimed): when the first attempt of the history fetch receives a
\* response whose status is not 200, that request is the only entry of the
\* history log (no sleep, no retry) and the call ends in the upstream error
\* carrying that status.
C2_Claim ==
    LET H == EpLog("history")
    IN (Len(H) >= 1 /\ ~H[1].exc /\ H[1].status # 200) =>
        /\ Len(H) = 1
        /\ pc # "h_loop"
        /\ (pc = "done" =>
               raised = [type |-> "Exception", what |-> "Failed to get data",
                         status |-> H[1].status])

\* C2 (amended): when the first attempt of the history fetch receives a
\* response whose status is not 200: a status below 400 ends the loop at
\* once (one request, no sleep) and the call ends in the upstream error
\* carrying that status; a status of 400 or more is followed by a sleep and,
\* once the loop is left, by at least one more request, and an upstream error
\* carries the status of the last response received, which is not 200.
C2_Amended ==
    LET H == EpLog("history")
    IN (Len(H) >= 1 /\ ~H[1].exc /\ H[1].status # 200) =>
        /\ H[1].status < 400 =>
            /\ Len(H) = 1
            /\ pc # "h_loop"
            /\ (pc = "done" =>
                   raised = [type |-> "Exception", what |-> "Failed to get data",
                             status |-> H[1].status])
        /\ H[1].status >= 400 =>
            /\ Len(H) >= 2
            /\ H[2].ev = "sleep"
            /\ (pc # "h_loop" => Reqs("history") >= 2)
            /\ Reqs("history") <= 3
            /\ ((pc = "done" /\ raised.type = "Exception") =>
                   /\ response.status # 200
                   /\ raised = [type |-> "Exception", what |-> "Failed to get data",
                                status |-> response.status])

\* C2 witness: three 404 responses, then the upstream error carrying 404
C2_Witness ==
    /\ pc = "done"
    /\ Reqs("history") = 3
    /\ \A k \in DOMAIN log : (log[k].ev = "req" => (~log[k].exc /\ log[k].status = 404))
    /\ raised = [type |-> "Exception", what |-> "Failed to get data", status |-> 404]

\* C3 (as claimed): when all three attempts of a loop raise a transport
\* exception and no response is ever received, the call ends in a
\* RequestException (caught by the RequestException clause) after exactly
\* three requests.
C3_Claim ==
    \A ep \in {"history", "search"} :
        LET L == EpLog(ep)
        IN (/\ pc = "done"
            /\ Reqs(ep) = 3
            /\ \A k \in DOMAIN L : (L[k].ev = "req" => L[k].exc)) =>
                /\ raised.type \in {"RequestException", "ConnectionError"}
                /\ caught = "RequestException"

\* C4: in either retry loop, a request that succeeds is the last entry of
\* that loop's log; before it the log alternates request, sleep, so attempt
\* k is preceded by k-1 failed requests and k-1 sleeps, each sleep between
\* two requests; k is at most 3; the loop is left and its local holds the
\* response of attempt k.
C4_Theorem ==
    \A ep \in {"history", "search"} :
        LET L == EpLog(ep)
        IN \A n \in DOMAIN L :
            Succeeded(L[n]) =>
                /\ n = Len(L)
                /\ n % 2 = 1
                /\ \A j \in 1..n :
                    /\ (j % 2 = 1 => L[j].ev = "req")
                    /\ (j % 2 = 0 => L[j].ev = "sleep")
                /\ \A j \in 1..(n - 1) : (L[j].ev = "req" => ~Succeeded(L[j]))
                /\ Reqs(ep) = (n + 1) \div 2
                /\ Sleeps(ep) = Reqs(ep) - 1
                /\ Reqs(ep) <= 3
                /\ LoopLeft(ep)
                /\ LoopResponse(ep) = Response(L[n].status)

\* C4 witness: two transport failures, then a 200, and the table is returned
C4_Witness ==
    LET H == EpLog("history")
    IN /\ Len(H) = 5
       /\ H[1].ev = "req" /\ H[1].exc
       /\ H[3].ev = "req" /\ H[3].exc
       /\ Succeeded(H[5])
       /\ Sleeps("history") = 2
       /\ result.kind = "table"

\* C5 (as claimed): once the search loop is left with a last response whose
\* status is not 200, resolution fails: no candidates are ever parsed from
\* that response, no recursive call is made, no history request is sent, and
\* the call ends with an error raised.
C5_Claim ==
    (resp.bound /\ resp.status # 200 /\ pc # "s_loop") =>
        /\ ~cands.bound
        /\ depth = 0
        /\ Reqs("history") = 0
        /\ (pc = "done" => (raised # NoError /\ result = ReturnNone))

\* C6: inside the recursive call, inscode is the insCode of the first
\* candidate, in list order, whose lVal18AFC is as long as the caller's
\* symbol, and days, start_date and end_date are the caller's; when the
\* candidates were parsed and no recursive call was made, no candidate
\* matches, the call has ended in the not-found error and no history request
\* was sent.
C6_Theorem ==
    LET Matches(k) == Len(cands.rows[k].lVal18AFC) = Len(caller.symbol.chars)
    IN /\ depth = 1 =>
            /\ cands.bound
            /\ \E k \in DOMAIN cands.rows :
                /\ Matches(k)
                /\ \A j \in 1..(k - 1) : ~Matches(j)
                /\ inscode = cands.rows[k].insCode
            /\ symbol = None
            /\ days = caller.days
            /\ (result.kind # "table" =>
                   /\ start_date = caller.start_date
                   /\ end_date = caller.end_date)
       /\ (cands.bound /\ depth = 0) =>
            /\ \A k \in DOMAIN cands.rows : ~Matches(k)
            /\ pc = "done"
            /\ raised = [type |-> "Exception", what |-> "Inscode not found"]
            /\ result = ReturnNone
            /\ Reqs("history") = 0

\* C6 witness: two matching candidates with different codes, and the history
\* fetch for the first one returned a table
C6_Witness ==
    /\ depth = 1
    /\ cands.bound
    /\ Len(cands.rows) = 2
    /\ Len(cands.rows[1].lVal18AFC) = Len(caller.symbol.chars)
    /\ Len(cands.rows[2].lVal18AFC) = Len(caller.symbol.chars)
    /\ cands.rows[1].insCode # cands.rows[2].insCode
    /\ inscode = cands.rows[1].insCode
    /\ caller.days = 5
    /\ result.kind = "table"

\* C7: the returned table holds exactly the rows of the indexed table whose
\* date d has lo <= d <= hi, in their order, where lo is the caller's
\* start_date, or the earliest date present when absent, and hi is the
\* caller's end_date, or the latest date present when absent.
C7_Theorem ==
    result.kind = "table" =>
        LET lo == IF caller.start_date = None THEN IndexMin(table.rows)
                  ELSE ParseDate(caller.start_date.chars)
            hi == IF caller.end_date = None THEN IndexMax(table.rows)
                  ELSE ParseDate(caller.end_date.chars)
        IN result.rows =
               SelectSeq(table.rows, LAMBDA r : DateLE(lo, r.date) /\ DateLE(r.date, hi))

\* C7 witness: both bounds given, three rows, and the two rows dated on the
\* bounds themselves are the ones returned
C7_Witness ==
    /\ result.kind = "table"
    /\ caller.start_date = DateStr(2021, 1, 1)
    /\ caller.end_date = DateStr(2021, 1, 2)
    /\ Len(table.rows) = 3
    /\ result.rows = <<[date |-> <<2021, 1, 1>>], [date |-> <<2021, 1, 2>>]>>

\* C8: a call given neither symbol nor inscode never sends a request and
\* never sleeps, and it ends returning the message string, with no exception
\* raised and no handler message.
C8_Theorem ==
    (caller.symbol = None /\ caller.inscode = None) =>
        /\ log = <<>>
        /\ pc \in {"entry", "done"}
        /\ (pc = "done" =>
               /\ result = Sentinel
               /\ raised = NoError
               /\ msgs = 0)

\* C8 witness: the message is returned although days and both dates were given
C8_Witness ==
    /\ pc = "done"
    /\ result = Sentinel
    /\ caller.symbol = None
    /\ caller.inscode = None
    /\ caller.days = 5
    /\ caller.start_date # None
    /\ caller.end_date # None

\* C9 (as claimed): at the slice, end_date is still unset whenever
\* start_date was supplied and end_date was not, and end_date is never
\* auto-filled; start_date is auto-filled to the minimum date when unset.
C9_Claim ==
    result.kind = "table" =>
        /\ (caller.start_date # None /\ caller.end_date = None) => end_date = None
        /\ end_date.tag # "Timestamp"
        /\ (caller.start_date = None => start_date = Timestamp(IndexMin(table.rows)))

\* C9 (amended): at the slice, when start_date was supplied and end_date was
\* not, end_date holds the maximum date present and start_date is as
\* supplied; when start_date was not supplied, start_date holds the minimum
\* date present and end_date is as the caller left it (still unset when the
\* caller gave none).
C9_Amended ==
    result.kind = "table" =>
        /\ (caller.start_date # None /\ caller.end_date = None) =>
            /\ end_date = Timestamp(IndexMax(table.rows))
            /\ start_date = caller.start_date
        /\ caller.start_date = None =>
            /\ start_date = Timestamp(IndexMin(table.rows))
            /\ end_date = caller.end_date

\* C9 witness: start_date supplied alone, and end_date auto-filled at the slice
C9_Witness ==
    /\ result.kind = "table"
    /\ caller.start_date # None
    /\ caller.end_date = None
    /\ end_date.tag = "Timestamp"

====
